---- MODULE Spec2Model ----
(***************************************************************************)
(* Model of the Telegram bot runtime of ai-admin-panel (telegram-bot.ts,   *)
(* listed in src/code-review-v2-findings.md): the per-user rate limiter,   *)
(* the per-user context store with its TTL cleanup and capacity eviction,  *)
(* and processMessage, the tool-calling loop, as it is driven by the       *)
(* grammY handlers of createTelegramBot.                                   *)
(*                                                                         *)
(* Time is Date.now() counted in abstract units.  Durations and capacities *)
(* are the program's constants scaled down to values that keep the state   *)
(* space finite; the code compares them but never depends on their         *)
(* magnitude.  A text is a sequence of atoms, so the empty string is <<>>  *)
(* and String.join is concatenation with a separator atom.                 *)
(***************************************************************************)
EXTENDS Integers, Sequences, FiniteSets, TLC

\* ---------------------------------------------------------------- bounds
MaxTime == 3
MaxConversations == 2
MaxChatMessages == 2
MaxTextLength == 6
MaxPartLength == 4

\* ----------------------------------------- program constants (scaled down)
\* the source sets 20, 5, 60_000, 10, 60 * 60 * 1000 and 500
MAX_CONTEXT_MESSAGES == 1
MAX_TOOL_ITERATIONS == 3
RATE_LIMIT_WINDOW_MS == 2
RATE_LIMIT_MAX_MESSAGES == 2
CONTEXT_TTL_MS == 2
MAX_CACHED_USERS == 2

Users == {1, 2, 3}
\* bot.start() is grammY's built-in long polling: it awaits the handler of one
\* update before it dispatches the next, so one handler is in flight at a time
Slots == {1}

VARIABLES
    now,              \* Date.now()
    rateLimitMap,     \* Map<userId, number[]>: a function on the keys present
    userContexts,     \* Map<userId, UserContext>: entries in insertion order
    cleanupInterval,  \* TRUE iff the variable holds a timer (it is not null)
    timers,           \* the number of setInterval timers that are set
    allowedEnv,       \* process.env.TELEGRAM_ALLOWED_USERS
    fnArgs,           \* the argument object parsed from a tool call
    safeArgs,         \* what sanitizeToolArgs returned: for fnArgs, then for that
    chat,             \* the web chat: the conversation tables and the tRPC calls in flight
    split,            \* a splitMessage call: its arguments, its locals, its position
    runs,             \* per update being handled: the handler's position and locals
    accepted,         \* history: per user, the times at which isRateLimited returned false
    lastCheck,        \* history: the last isRateLimited call [user, limited, flip]
    lastSweep,        \* history: the sessions the step just taken swept, if any
    timerLog          \* history: "never", "started", "stopped" or "restarted"

timerVars == <<cleanupInterval, timers, timerLog>>
hostVars == <<allowedEnv, fnArgs, safeArgs, chat, split>>
vars == <<now, rateLimitMap, userContexts, timerVars, hostVars, runs, accepted,
          lastCheck, lastSweep>>

\* ------------------------------------------------------------------ texts
EmptyText == <<>>
UserText == <<"user message">>
ModelText == <<"model text">>
SYSTEM_PROMPT == <<"system prompt">>
NoAnswerText == <<"no answer">>
ErrorText == <<"AI error: ", "sanitized error">>
JoinSep == <<"/">>

\* Array.prototype.join over a list of texts, JoinSep being the separator
RECURSIVE Join(_)
Join(texts) ==
    IF Len(texts) = 0 THEN EmptyText
    ELSE IF Len(texts) = 1 THEN texts[1]
    ELSE texts[1] \o JoinSep \o Join(Tail(texts))

\* JavaScript truthiness of a string
Truthy(text) == Len(text) > 0

\* --------------------------------------------------------------- messages
NoId == <<>>
Msg(role, content, callId, calls) ==
    [role |-> role, content |-> content, tool_call_id |-> callId, tool_calls |-> calls]
UserMsg(content) == Msg("user", content, NoId, <<>>)
AssistantMsg(content) == Msg("assistant", content, NoId, <<>>)
AssistantCallsMsg(content, calls) == Msg("assistant", content, NoId, calls)
ToolMsg(content, callId) == Msg("tool", content, callId, <<>>)
SystemMsg == Msg("system", SYSTEM_PROMPT, NoId, <<>>)

\* ----------------------------------------------------------- rate limiter
\* timestamps.filter(t => now - t < RATE_LIMIT_WINDOW_MS)
RateValid(timestamps, t) ==
    SelectSeq(timestamps, LAMBDA x : t - x < RATE_LIMIT_WINDOW_MS)

RateGet(map, u) == IF u \in DOMAIN map THEN map[u] ELSE <<>>

MapPut(map, k, v) == [x \in (DOMAIN map) \cup {k} |-> IF x = k THEN v ELSE map[x]]
MapRemove(map, k) == [x \in (DOMAIN map) \ {k} |-> map[x]]

\* isRateLimited with > for >=
IsRateLimitedOffByOne(map, u, t) ==
    Len(RateValid(RateGet(map, u), t)) > RATE_LIMIT_MAX_MESSAGES

\* the return value of isRateLimited(userId) at time t
IsRateLimited(map, u, t) ==
    Len(RateValid(RateGet(map, u), t)) >= RATE_LIMIT_MAX_MESSAGES

\* isRateLimited pushing now before it compares, so that rejected calls are
\* recorded too
RateLimitAfterRecording(map, u, t) ==
    MapPut(map, u, Append(RateValid(RateGet(map, u), t), t))

\* rateLimitMap after isRateLimited(userId) at time t
RateLimitAfter(map, u, t) ==
    LET valid == RateValid(RateGet(map, u), t)
    IN IF IsRateLimited(map, u, t)
       THEN MapPut(map, u, valid)
       ELSE MapPut(map, u, Append(valid, t))

\* the sweep of the rate limit map keeping a user whose window is empty
RECURSIVE SweepRateKeepingEmpty(_, _, _)
SweepRateKeepingEmpty(map, keys, t) ==
    IF keys = {} THEN map
    ELSE LET k == CHOOSE x \in keys : TRUE
         IN SweepRateKeepingEmpty(MapPut(map, k, RateValid(map[k], t)), keys \ {k}, t)

\* the rate-limit half of the cleanup callback
RECURSIVE SweepRate(_, _, _)
SweepRate(map, keys, t) ==
    IF keys = {} THEN map
    ELSE LET k == CHOOSE x \in keys : TRUE
             valid == RateValid(map[k], t)
             next == IF Len(valid) = 0 THEN MapRemove(map, k) ELSE MapPut(map, k, valid)
         IN SweepRate(next, keys \ {k}, t)

\* ---------------------------------------------------------- context store
Keys(store) == {store[i].id : i \in 1..Len(store)}
Has(store, u) == u \in Keys(store)
IndexOf(store, u) == CHOOSE i \in 1..Len(store) : store[i].id = u
Entry(store, u) == store[IndexOf(store, u)]
Delete(store, u) == SelectSeq(store, LAMBDA e : e.id # u)
\* Map.prototype.set: an existing key keeps its place, a new key goes last
Set(store, u, messages, t) ==
    LET e == [id |-> u, messages |-> messages, lastActivity |-> t]
    IN IF Has(store, u)
       THEN [store EXCEPT ![IndexOf(store, u)] = e]
       ELSE Append(store, e)

\* the scan of getUserContext over Array.from(userContexts.entries()), from
\* entry i on: oldestKey is NoKey while it is null (oldestTime is Infinity)
NoKey == 0
RECURSIVE ScanOldest(_, _, _, _)
ScanOldest(store, i, oldestKey, oldestTime) ==
    IF i > Len(store) THEN oldestKey
    ELSE IF oldestKey = NoKey \/ store[i].lastActivity < oldestTime
         THEN ScanOldest(store, i + 1, store[i].id, store[i].lastActivity)
         ELSE ScanOldest(store, i + 1, oldestKey, oldestTime)

\* the scan with > for <: it ends on the most recently active entry
RECURSIVE ScanNewest(_, _, _, _)
ScanNewest(store, i, oldestKey, oldestTime) ==
    IF i > Len(store) THEN oldestKey
    ELSE IF oldestKey = NoKey \/ store[i].lastActivity > oldestTime
         THEN ScanNewest(store, i + 1, store[i].id, store[i].lastActivity)
         ELSE ScanNewest(store, i + 1, oldestKey, oldestTime)

NewestKey(store) == ScanNewest(store, 1, NoKey, 0)

OldestKey(store) == ScanOldest(store, 1, NoKey, 0)

\* if (!userContexts.has(id) && userContexts.size >= MAX_CACHED_USERS)
MustEvict(store, u) == ~Has(store, u) /\ Len(store) >= MAX_CACHED_USERS

\* getUserContext checking the age: a session older than CONTEXT_TTL_MS is
\* replaced by a new, empty one
GetUserContextExpiring(store, u, t) ==
    IF Has(store, u) /\ t - Entry(store, u).lastActivity > CONTEXT_TTL_MS
    THEN Set(store, u, <<>>, t)
    ELSE LET evicted == IF MustEvict(store, u) /\ OldestKey(store) # NoKey
                        THEN Delete(store, OldestKey(store))
                        ELSE store
             created == IF ~Has(evicted, u) THEN Set(evicted, u, <<>>, t) ELSE evicted
         IN Set(created, u, Entry(created, u).messages, t)

\* userContexts after getUserContext(u) at time t
GetUserContext(store, u, t) ==
    LET evicted == IF MustEvict(store, u) /\ OldestKey(store) # NoKey
                   THEN Delete(store, OldestKey(store))
                   ELSE store
        created == IF ~Has(evicted, u) THEN Set(evicted, u, <<>>, t) ELSE evicted
    IN Set(created, u, Entry(created, u).messages, t)

\* clearUserContext emptying every session, not the user's alone
ClearEveryContext(store, u, t) ==
    Set([i \in DOMAIN store |-> [store[i] EXCEPT !.messages = <<>>, !.lastActivity = t]],
        u, <<>>, t)

\* userContexts after clearUserContext(u) at time t
ClearUserContext(store, u, t) == Set(store, u, <<>>, t)

\* the cleanup callback with >= for >: a session expires at the TTL already
SweepContextsInclusive(store, t) ==
    SelectSeq(store, LAMBDA e : ~(t - e.lastActivity >= CONTEXT_TTL_MS))

\* the context half of the cleanup callback
SweepContexts(store, t) ==
    SelectSeq(store, LAMBDA e : ~(t - e.lastActivity > CONTEXT_TTL_MS))

\* the users whose entry getUserContext(u) deletes
EvictedBy(store, u) ==
    IF MustEvict(store, u) /\ OldestKey(store) # NoKey THEN {OldestKey(store)} ELSE {}

\* the users whose entry the cleanup callback deletes
SweptBy(store, t) == Keys(store) \ Keys(SweepContexts(store, t))

\* the trim with >= for >: it stops one message short of the bound
RECURSIVE TrimLate(_)
TrimLate(context) ==
    IF Len(context) > MAX_CONTEXT_MESSAGES * 2 + 1 THEN TrimLate(Tail(context)) ELSE context

\* the trim taking the newest message off, pop() in place of shift()
RECURSIVE TrimFromBack(_)
TrimFromBack(context) ==
    IF Len(context) > MAX_CONTEXT_MESSAGES * 2
    THEN TrimFromBack(SubSeq(context, 1, Len(context) - 1))
    ELSE context

\* while (context.length > MAX_CONTEXT_MESSAGES * 2) context.shift()
RECURSIVE Trim(_)
Trim(context) ==
    IF Len(context) > MAX_CONTEXT_MESSAGES * 2 THEN Trim(Tail(context)) ELSE context

\* context.push(message) on the array that getUserContext returned for user u
Push(store, u, message) ==
    Set(store, u, Append(Entry(store, u).messages, message), Entry(store, u).lastActivity)

\* ------------------------------------------------------------ access list
\* process.env.TELEGRAM_ALLOWED_USERS: unset, or a string of characters
EnvUnset == [set |-> FALSE, value |-> <<>>]
EnvText(chars) == [set |-> TRUE, value |-> chars]

\* String.prototype.split(",")
RECURSIVE SplitFrom(_, _)
SplitFrom(text, token) ==
    IF text = <<>> THEN <<token>>
    ELSE IF Head(text) = ","
         THEN <<token>> \o SplitFrom(Tail(text), <<>>)
         ELSE SplitFrom(Tail(text), Append(token, Head(text)))
Split(text) == SplitFrom(text, <<>>)

\* String.prototype.trim, the white space being the blank
RECURSIVE TrimStart(_)
TrimStart(text) ==
    IF text # <<>> /\ Head(text) = " " THEN TrimStart(Tail(text)) ELSE text
RECURSIVE TrimEnd(_)
TrimEnd(text) ==
    IF text # <<>> /\ text[Len(text)] = " "
    THEN TrimEnd(SubSeq(text, 1, Len(text) - 1))
    ELSE text
TrimText(text) == TrimEnd(TrimStart(text))

DigitChars == <<"0", "1", "2", "3", "4", "5", "6", "7", "8", "9">>
IsDigit(c) == \E i \in DOMAIN DigitChars : DigitChars[i] = c
DigitValue(c) == (CHOOSE i \in DOMAIN DigitChars : DigitChars[i] = c) - 1

\* the decimal digits parseInt reads from the head of text: <<n>>, or <<>> for
\* NaN when there is none
RECURSIVE ReadDigits(_, _, _)
ReadDigits(text, value, any) ==
    IF text # <<>> /\ IsDigit(Head(text))
    THEN ReadDigits(Tail(text), value * 10 + DigitValue(Head(text)), TRUE)
    ELSE IF any THEN <<value>> ELSE <<>>

\* parseInt(text) for texts without a radix prefix: leading blanks, a sign,
\* then digits up to the first other character; <<>> is NaN
ParseInt(text) ==
    LET t == TrimStart(text)
        digits == IF t # <<>> /\ Head(t) \in {"-", "+"} THEN Tail(t) ELSE t
        read == ReadDigits(digits, 0, FALSE)
    IN IF read # <<>> /\ t # <<>> /\ Head(t) = "-" THEN <<0 - read[1]>> ELSE read

\* envVal.split(",").map(id => parseInt(id.trim())).filter(id => !isNaN(id))
RECURSIVE ParseIds(_)
ParseIds(tokens) ==
    IF tokens = <<>> THEN <<>>
    ELSE ParseInt(TrimText(Head(tokens))) \o ParseIds(Tail(tokens))

GetAllowedUserIds(env) ==
    IF ~env.set \/ env.value = <<>> THEN <<>> ELSE ParseIds(Split(env.value))

IsUserAllowed(env, u) ==
    LET allowed == GetAllowedUserIds(env)
    IN IF Len(allowed) = 0 THEN TRUE ELSE \E i \in DOMAIN allowed : allowed[i] = u

\* the values TELEGRAM_ALLOWED_USERS takes in the model
EnvValues ==
    {EnvUnset, EnvText(<<>>), EnvText(<<"1">>), EnvText(<<" ", "1", " ", ",", "2">>),
     EnvText(<<"a", "b", "c">>), EnvText(<<"a", ",", "3", "b">>), EnvText(<<"1", "2">>)}

\* -------------------------------------------------------- sanitizeToolArgs
\* the limits of sanitizeToolArgs, scaled down: the source sets 50000 and 1000
StringLimit == 2
NumberLimit == 3

\* a JavaScript value: type is what typeof gives
StringValue(chars) == [type |-> "string", str |-> chars, num |-> 0, bool |-> FALSE]
NumberValue(n) == [type |-> "number", str |-> <<>>, num |-> n, bool |-> FALSE]
BooleanValue(b) == [type |-> "boolean", str |-> <<>>, num |-> 0, bool |-> b]
\* null, an array and an object all have typeof "object"
ObjectValue(kind) == [type |-> "object", str |-> <<kind>>, num |-> 0, bool |-> FALSE]

\* String.prototype.slice(0, n)
Slice(text, n) == SubSeq(text, 1, IF Len(text) < n THEN Len(text) ELSE n)

\* Math.min(Math.max(v, 0), NumberLimit)
Clamp(v) ==
    LET atLeast == IF v > 0 THEN v ELSE 0
    IN IF atLeast < NumberLimit THEN atLeast ELSE NumberLimit

\* sanitized[key] = value on the object literal {}: the key __proto__ is the
\* accessor inherited from Object.prototype, whose setter ignores a value that
\* is neither an object nor null, so no own property is created for it
PropertySet(object, key, value) ==
    IF key = "__proto__" THEN object ELSE MapPut(object, key, value)

\* the loop of sanitizeToolArgs over the entries not yet visited
RECURSIVE SanitizeEntries(_, _, _)
SanitizeEntries(args, keys, sanitized) ==
    IF keys = {} THEN sanitized
    ELSE LET key == CHOOSE k \in keys : TRUE
             value == args[key]
             next ==
                 CASE value.type = "string" ->
                          PropertySet(sanitized, key, StringValue(Slice(value.str, StringLimit)))
                   [] value.type = "number" ->
                          PropertySet(sanitized, key, NumberValue(Clamp(value.num)))
                   [] value.type = "boolean" -> PropertySet(sanitized, key, value)
                   [] OTHER -> sanitized
         IN SanitizeEntries(args, keys \ {key}, next)

\* sanitizeToolArgs dropping the head of a long string instead of its tail
SanitizeToolArgsKeepingTail(args) ==
    [k \in DOMAIN SanitizeEntries(args, DOMAIN args, <<>>) |->
        IF args[k].type = "string" /\ Len(args[k].str) > StringLimit
        THEN StringValue(Tail(args[k].str))
        ELSE SanitizeEntries(args, DOMAIN args, <<>>)[k]]

SanitizeToolArgs(args) == SanitizeEntries(args, DOMAIN args, <<>>)

\* the argument objects JSON.parse hands to executeTool in the model
ArgKeys == {"title", "limit", "__proto__"}
ArgValues ==
    {StringValue(<<>>), StringValue(<<"a">>), StringValue(<<"a", "b">>),
     StringValue(<<"a", "b", "c">>), StringValue(<<"a", "b", "c", "d">>)}
    \cup {NumberValue(n) : n \in {0 - 1, 0, 2, 3, 4}}
    \cup {BooleanValue(b) : b \in BOOLEAN}
    \cup {ObjectValue(kind) : kind \in {"null", "array", "object"}}
ArgObjects == UNION {[K -> ArgValues] : K \in SUBSET ArgKeys}

\* ------------------------------------------------- handlers in flight
NoResponse == [type |-> "none", content |-> EmptyText, tool_calls |-> <<>>]

Idle ==
    [pc |-> "idle", kind |-> "none", user |-> NoKey, attached |-> FALSE,
     llmMessages |-> <<>>, toolResults |-> <<>>, finalContent |-> EmptyText,
     iterations |-> 0, response |-> NoResponse, pending |-> <<>>,
     ret |-> EmptyText,
     \* history of the run: isRateLimited let it pass; callLLM calls; responses
     \* with tool calls; executeTool calls; the key its getUserContext evicted;
     \* its getUserContext found a session older than CONTEXT_TTL_MS
     gated |-> FALSE, calls |-> 0, toolResponses |-> 0, executed |-> 0,
     evicted |-> NoKey, revived |-> FALSE]

\* a run holds the array it got from getUserContext; once the entry is deleted
\* or replaced, the array is no longer the one the store holds
Detach(rs, gone) ==
    [r \in DOMAIN rs |->
        IF rs[r].user \in gone THEN [rs[r] EXCEPT !.attached = FALSE] ELSE rs[r]]

\* ------------------------------------------------------ processMessage
\* context.push(message): the array is the store's only while attached
PushContext(store, run, message) ==
    IF run.attached THEN Push(store, run.user, message) ELSE store

\* response = await callLLM(llmMessages, ...): the run is suspended in the call
CallLLM(run) == [run EXCEPT !.pc = "llm", !.calls = @ + 1]

\* the fallback without its last resort, the fixed no-answer text
FinalContentNoDefault(run) ==
    IF Truthy(run.finalContent) THEN run.finalContent
    ELSE IF run.response.type = "message" /\ Truthy(run.response.content)
         THEN run.response.content
         ELSE Join(run.toolResults)

\* the fallback preferring the tool results to the text of the last response
FinalContentToolsFirst(run) ==
    IF Truthy(run.finalContent) THEN run.finalContent
    ELSE IF Len(run.toolResults) > 0 THEN Join(run.toolResults)
    ELSE IF run.response.type = "message" /\ Truthy(run.response.content)
         THEN run.response.content
         ELSE NoAnswerText

\* the two fallback statements after the loop
FinalContent(run) ==
    LET fromResponse ==
            IF ~Truthy(run.finalContent) /\ run.response.type = "message"
                                         /\ Truthy(run.response.content)
            THEN run.response.content
            ELSE run.finalContent
    IN IF ~Truthy(fromResponse)
       THEN IF Len(run.toolResults) > 0 THEN Join(run.toolResults) ELSE NoAnswerText
       ELSE fromResponse

\* the end of processMessage pushing the tool results into the context as well
AfterLoopKeepingTools(run, store) ==
    LET text == FinalContent(run)
        kept == IF Len(run.toolResults) > 0
                THEN PushContext(store, run, ToolMsg(Join(run.toolResults), NoId))
                ELSE store
    IN [run |-> [run EXCEPT !.finalContent = text, !.ret = text, !.pc = "returned"],
        store |-> PushContext(kept, run, AssistantMsg(text))]

\* the end of processMessage returning the collected tool results after the
\* final content
AfterLoopWithResults(run, store) ==
    LET text == IF Len(run.toolResults) > 0
                THEN FinalContent(run) \o JoinSep \o Join(run.toolResults)
                ELSE FinalContent(run)
    IN [run |-> [run EXCEPT !.finalContent = text, !.ret = text, !.pc = "returned"],
        store |-> PushContext(store, run, AssistantMsg(text))]

\* from the end of the while loop to return { text: finalContent, images }
AfterLoop(run, store) ==
    LET text == FinalContent(run)
    IN [run |-> [run EXCEPT !.finalContent = text, !.ret = text, !.pc = "returned"],
        store |-> PushContext(store, run, AssistantMsg(text))]

\* the catch block without its push: the error text is returned only
CaughtSilently(run, store) ==
    [run |-> [run EXCEPT !.ret = ErrorText, !.pc = "returned"], store |-> store]

\* the catch block inside the loop: the error is recorded and the next
\* iteration calls the model again
CaughtAndRetry(run, store) ==
    IF run.iterations < MAX_TOOL_ITERATIONS
    THEN [run |-> [run EXCEPT !.pc = "llm", !.calls = @ + 1, !.iterations = @ + 1],
          store |-> PushContext(store, run, AssistantMsg(ErrorText))]
    ELSE [run |-> [run EXCEPT !.ret = ErrorText, !.pc = "returned"],
          store |-> PushContext(store, run, AssistantMsg(ErrorText))]

\* the catch block ending the run the way the end of the loop does, with the
\* fallback content
CaughtWithFallback(run, store) ==
    LET text == FinalContent(run)
    IN [run |-> [run EXCEPT !.finalContent = text, !.ret = text, !.pc = "returned"],
        store |-> PushContext(store, run, AssistantMsg(text))]

\* the catch block of processMessage
Caught(run, store) ==
    [run |-> [run EXCEPT !.ret = ErrorText, !.pc = "returned"],
     store |-> PushContext(store, run, AssistantMsg(ErrorText))]

\* while (iterations < MAX_TOOL_ITERATIONS) { iterations++; await callLLM(...)
LoopHead(run, store) ==
    IF run.iterations < MAX_TOOL_ITERATIONS
    THEN [run |-> CallLLM([run EXCEPT !.iterations = @ + 1]), store |-> store]
    ELSE AfterLoop(run, store)

\* processMessage from its first statement to its first await
ProcessMessage(run, store, u, t) ==
    LET got == GetUserContext(store, u, t)
        context == Trim(Append(Entry(got, u).messages, UserMsg(UserText)))
        started == [run EXCEPT !.pc = "process", !.user = u, !.attached = TRUE,
                               !.llmMessages = <<SystemMsg>> \o context]
    IN LoopHead(started, Set(got, u, context, t))

\* the outcomes of executeTool per tool: a result text, or "throw"
ToolNames == {"list_articles", "edit_article", "no_such_tool"}

\* executeTool with a default case that throws
ToolOutcomesThrowing(name) ==
    CASE name = "list_articles" -> {<<"result of ", name>>, <<"throw">>}
      [] name = "edit_article" -> {<<"result of ", name>>, <<"error text of ", name>>}
      [] OTHER -> {<<"throw">>}

ToolOutcomes(name) ==
    CASE name = "list_articles" -> {<<"result of ", name>>, <<"throw">>}
      [] name = "edit_article" -> {<<"result of ", name>>, <<"error text of ", name>>}
      [] OTHER -> {<<"unknown tool: ", name>>}
Thrown == <<"throw">>

\* what callLLM can deliver: it throws, or a response without a choice, or a
\* message with a content (possibly empty) and a list of tool calls
CallLists ==
    {<<>>, <<"list_articles", "no_such_tool">>} \cup {<<n>> : n \in ToolNames}
Responses ==
    {[type |-> "throw", content |-> EmptyText, tool_calls |-> <<>>],
     [type |-> "nochoice", content |-> EmptyText, tool_calls |-> <<>>]}
    \cup [type : {"message"}, content : {EmptyText, ModelText}, tool_calls : CallLists]

\* the tool calls of a response, with the ids the model gave them
ToolCalls(run, names) ==
    [k \in 1..Len(names) |->
        [id |-> <<run.iterations, k>>, name |-> names[k]]]

\* -------------------------------------------------------- splitMessage
NewLine == "\n"
Chars == {"a", NewLine}
TextsUpTo(n) == UNION {[1..k -> Chars] : k \in 0..n}

\* remaining.slice(from), from counting from 0
SliceFrom(text, from) == SubSeq(text, from + 1, Len(text))

\* text.lastIndexOf(ch, position): the largest index, counting from 0 and not
\* above position, that holds ch; -1 without one
LastIndexOf(text, ch, position) ==
    LET last == IF position < Len(text) - 1 THEN position ELSE Len(text) - 1
        hits == {i \in 0..last : text[i + 1] = ch}
    IN IF hits = {} THEN -1 ELSE CHOOSE i \in hits : \A j \in hits : j <= i

\* the split index without the floor of maxLen * 0.3: any line break found
SplitIndexAnywhere(remaining, maxLen) ==
    LET splitIdx == LastIndexOf(remaining, NewLine, maxLen)
    IN IF splitIdx < 0 THEN maxLen ELSE splitIdx

\* let splitIdx = remaining.lastIndexOf("\n", maxLen);
\* if (splitIdx < maxLen * 0.3) splitIdx = maxLen;
SplitIndex(remaining, maxLen) ==
    LET splitIdx == LastIndexOf(remaining, NewLine, maxLen)
    IN IF 10 * splitIdx < 3 * maxLen THEN maxLen ELSE splitIdx

\* a splitMessage call: not made, made, in its while loop, or returned
NotSplitting ==
    [pc |-> "idle", text |-> <<>>, maxLen |-> 0, remaining |-> <<>>, parts |-> <<>>]
SplitCalled(text, maxLen) ==
    [pc |-> "called", text |-> text, maxLen |-> maxLen, remaining |-> <<>>,
     parts |-> <<>>]

\* ------------------------------------------------------------ web chat
\* the users of the web client, and the number of conversations and of stored
\* messages the model lets them create
ChatUsers == {1, 2}

\* a row of chat_conversations, or what getConversation resolves to without one
NoConversation == [id |-> 0, userId |-> 0, title |-> <<>>]
Conversation(id, userId, title) == [id |-> id, userId |-> userId, title |-> title]
ChatMessage(id, role, content) == [conversationId |-> id, role |-> role, content |-> content]

DefaultTitle == <<"new chat">>
NewTitle == <<"renamed">>
ChatErrorText == <<"AI error: ", "error.message">>

\* a tRPC call of one user: the procedure, its conversation id, how far it got
NoCall == [proc |-> "none", id |-> 0, pc |-> "idle"]
NoChat ==
    [conversations |-> <<>>, messages |-> <<>>, nextId |-> 1, llmCalls |-> 0,
     calls |-> [u \in ChatUsers |-> NoCall]]

\* db.getConversation(id): the row with that id, if there is one
GetConversation(db, id) ==
    LET KeepId(row) == row.id = id
        found == SelectSeq(db.conversations, KeepId)
    IN IF found = <<>> THEN NoConversation ELSE found[1]

\* db.getConversationMessages(id): the rows of the conversation, oldest first
GetConversationMessages(db, id) ==
    LET KeepConversation(row) == row.conversationId = id
    IN SelectSeq(db.messages, KeepConversation)

\* db.createConversation(userId, title): a new row under the next id
CreateConversationRow(db, userId, title) ==
    [db EXCEPT !.conversations = Append(@, Conversation(db.nextId, userId, title)),
               !.nextId = @ + 1]

\* db.deleteConversation(id): the row and its messages go
DeleteConversationRow(db, id) ==
    LET OtherId(row) == row.id # id
        OtherConversation(row) == row.conversationId # id
    IN [db EXCEPT !.conversations = SelectSeq(@, OtherId),
                  !.messages = SelectSeq(@, OtherConversation)]

\* db.updateConversationTitle(id, title)
UpdateConversationTitle(db, id, title) ==
    [db EXCEPT !.conversations =
        [i \in DOMAIN @ |-> IF @[i].id = id THEN [@[i] EXCEPT !.title = title] ELSE @[i]]]

\* db.addChatMessage({conversationId, role, content})
AddChatMessage(db, id, role, content) ==
    [db EXCEPT !.messages = Append(@, ChatMessage(id, role, content))]

\* verifyConversationOwnership(conversationId, userId) with no check of the
\* owner, as the router was before the helper compared conv.userId
VerifyConversationExists(db, conversationId, userId) ==
    GetConversation(db, conversationId) # NoConversation

\* verifyConversationOwnership(conversationId, userId): TRUE when it returns,
\* FALSE when it throws TRPCError NOT_FOUND
VerifyConversationOwnership(db, conversationId, userId) ==
    LET conv == GetConversation(db, conversationId)
    IN ~(conv = NoConversation \/ conv.userId # userId)

GuardedProcedures ==
    {"getConversation", "deleteConversation", "renameConversation", "sendMessage"}

\* ----------------------------------------------------------------- actions
InitBot ==
    /\ now = 0
    /\ rateLimitMap = <<>>
    /\ userContexts = <<>>
    /\ cleanupInterval = FALSE
    /\ timers = 0
    /\ runs = [r \in Slots |-> Idle]
    /\ accepted = [u \in Users |-> <<>>]
    /\ lastCheck = [user |-> NoKey, limited |-> FALSE, flip |-> FALSE]
    /\ lastSweep = {}
    /\ timerLog = "never"
    /\ safeArgs = <<>>
    /\ chat = NoChat

\* the bot as startTelegramBot finds it, TELEGRAM_ALLOWED_USERS being unset
Init ==
    /\ InitBot
    /\ allowedEnv = EnvUnset
    /\ fnArgs = <<>>
    /\ split = NotSplitting

\* run r goes on with processMessage(text, u)
EnterProcessMessage(r, run, u) ==
    LET res == ProcessMessage(run, userContexts, u, now)
    IN /\ userContexts' = res.store
       /\ runs' = [Detach(runs, EvictedBy(userContexts, u)) EXCEPT ![r] =
                       [res.run EXCEPT
                           !.evicted =
                               IF EvictedBy(userContexts, u) = {} THEN NoKey
                               ELSE CHOOSE k \in EvictedBy(userContexts, u) : TRUE,
                           !.revived =
                               /\ Has(userContexts, u)
                               /\ now - Entry(userContexts, u).lastActivity >
                                      CONTEXT_TTL_MS]]

\* one call of isRateLimited(u), with its record in the history variables
RateCheck(u) ==
    LET limited == IsRateLimited(rateLimitMap, u, now)
    IN /\ rateLimitMap' = RateLimitAfter(rateLimitMap, u, now)
       /\ lastCheck' = [user |-> u, limited |-> limited, flip |-> ~lastCheck.flip]
       /\ accepted' = IF limited THEN accepted
                      ELSE [accepted EXCEPT ![u] = Append(@, now)]

\* the message handler fetching the user's context before it asks the limiter
MessageContextFirst(r, u, kind) ==
    /\ runs[r].pc = "idle"
    /\ IsUserAllowed(allowedEnv, u)
    /\ RateCheck(u)
    /\ runs' = IF IsRateLimited(rateLimitMap, u, now)
               THEN Detach(runs, EvictedBy(userContexts, u))
               ELSE [Detach(runs, EvictedBy(userContexts, u)) EXCEPT ![r] =
                        [Idle EXCEPT !.pc = "pre", !.kind = kind, !.user = u,
                                     !.gated = TRUE]]
    /\ userContexts' = GetUserContext(userContexts, u, now)
    /\ lastSweep' = {}
    /\ UNCHANGED <<now, timerVars, hostVars>>

\* bot.on("message:text") and bot.on("message:photo"), up to the first await
Message(r, u, kind) ==
    /\ runs[r].pc = "idle"
    /\ IsUserAllowed(allowedEnv, u)
    /\ RateCheck(u)
    /\ runs' = IF IsRateLimited(rateLimitMap, u, now) THEN runs
               ELSE [runs EXCEPT ![r] = [Idle EXCEPT !.pc = "pre", !.kind = kind,
                                                     !.user = u, !.gated = TRUE]]
    /\ lastSweep' = {}
    /\ UNCHANGED <<now, userContexts, timerVars, hostVars>>

\* a message whose handler, once past isRateLimited, fails in its next await
\* (Message followed at once by Resume with ok = FALSE)
MessageDropped(u) ==
    /\ runs[1].pc = "idle"
    /\ IsUserAllowed(allowedEnv, u)
    /\ RateCheck(u)
    /\ lastSweep' = {}
    /\ UNCHANGED <<now, userContexts, timerVars, hostVars, runs>>

\* the command handlers without their access check
CommandUnchecked(r, u, cmd) ==
    /\ runs[r].pc = "idle"
    /\ IF cmd = "settings"
       THEN EnterProcessMessage(r, [Idle EXCEPT !.kind = "command"], u)
       ELSE /\ runs' = [runs EXCEPT ![r] = [Idle EXCEPT !.pc = "pre", !.kind = "command",
                                                        !.user = u]]
            /\ UNCHANGED userContexts
    /\ lastSweep' = {}
    /\ UNCHANGED <<now, rateLimitMap, timerVars, hostVars, accepted, lastCheck>>

\* bot.command for articles, stats, sync and settings, past checkAccess:
\* settings calls processMessage at once, the others await a reply first
Command(r, u, cmd) ==
    /\ runs[r].pc = "idle"
    /\ IsUserAllowed(allowedEnv, u)
    /\ IF cmd = "settings"
       THEN EnterProcessMessage(r, [Idle EXCEPT !.kind = "command"], u)
       ELSE /\ runs' = [runs EXCEPT ![r] = [Idle EXCEPT !.pc = "pre", !.kind = "command",
                                                        !.user = u]]
            /\ UNCHANGED userContexts
    /\ lastSweep' = {}
    /\ UNCHANGED <<now, rateLimitMap, timerVars, hostVars, accepted, lastCheck>>

\* bot.callbackQuery: await answerCallbackQuery, then checkAccess (in Resume);
\* cmd_stats, cmd_articles, cmd_sync and cmd_settings go on to processMessage,
\* the others only reply
Callback(r, u, data) ==
    /\ runs[r].pc = "idle"
    /\ runs' = [runs EXCEPT ![r] =
                   [Idle EXCEPT !.pc = "pre", !.user = u,
                                !.kind = IF data = "cmd_stats" THEN "callback" ELSE "reply"]]
    /\ lastSweep' = {}
    /\ UNCHANGED <<now, rateLimitMap, userContexts, timerVars, hostVars, accepted, lastCheck>>

\* the awaits of a handler before processMessage (chat action, reply, photo
\* download and upload, answerCallbackQuery) end: with ok the handler goes on,
\* a callback handler past its checkAccess, else it has thrown
Resume(r, ok) ==
    /\ runs[r].pc = "pre"
    /\ IF /\ ok
          /\ runs[r].kind \notin {"reply", "denied"}
          /\ runs[r].kind = "callback" => IsUserAllowed(allowedEnv, runs[r].user)
       THEN EnterProcessMessage(r, runs[r], runs[r].user)
       ELSE /\ runs' = [runs EXCEPT ![r] = Idle]
            /\ UNCHANGED userContexts
    /\ lastSweep' = {}
    /\ UNCHANGED <<now, rateLimitMap, timerVars, hostVars, accepted, lastCheck>>

\* a handler whose checkAccess fails: it replies that access is denied (start,
\* help, new, text) or returns at once (articles, stats, sync, settings, photo)
Denied(r, u) ==
    /\ runs[r].pc = "idle"
    /\ ~IsUserAllowed(allowedEnv, u)
    /\ runs' = [runs EXCEPT ![r] = [Idle EXCEPT !.pc = "pre", !.kind = "denied",
                                                 !.user = u]]
    /\ lastSweep' = {}
    /\ UNCHANGED <<now, rateLimitMap, userContexts, timerVars, hostVars, accepted, lastCheck>>

\* bot.command("start") and bot.command("new"), past checkAccess
ClearCommand(r, u) ==
    /\ runs[r].pc = "idle"
    /\ IsUserAllowed(allowedEnv, u)
    /\ userContexts' = ClearUserContext(userContexts, u, now)
    /\ runs' = Detach(runs, {u})
    /\ lastSweep' = {}
    /\ UNCHANGED <<now, rateLimitMap, timerVars, hostVars, accepted, lastCheck>>

\* callLLM settles for run r
LLMReturns(r, resp) ==
    /\ runs[r].pc = "llm"
    /\ LET run == runs[r]
           calls == ToolCalls(run, resp.tool_calls)
           res == CASE resp.type = "throw" -> Caught(run, userContexts)
                    [] resp.type = "nochoice" ->
                         AfterLoop([run EXCEPT !.response = resp], userContexts)
                    [] resp.type = "message" /\ Len(calls) > 0 ->
                         [run |-> [run EXCEPT !.response = resp, !.pc = "tool",
                                         !.pending = calls, !.executed = @ + 1,
                                         !.toolResponses = @ + 1,
                                         !.llmMessages =
                                             Append(@, AssistantCallsMsg(resp.content, calls))],
                          store |-> userContexts]
                    [] OTHER ->
                         AfterLoop([run EXCEPT !.response = resp,
                                               !.finalContent = resp.content], userContexts)
       IN /\ runs' = [runs EXCEPT ![r] = res.run]
          /\ userContexts' = res.store
    /\ lastSweep' = {}
    /\ UNCHANGED <<now, rateLimitMap, timerVars, hostVars, accepted, lastCheck>>

\* executeTool settles for the first pending tool call of run r
ToolReturns(r, outcome) ==
    /\ runs[r].pc = "tool"
    /\ outcome \in ToolOutcomes(Head(runs[r].pending).name)
    /\ LET run == runs[r]
           call == Head(run.pending)
           fed == [run EXCEPT !.toolResults = Append(@, outcome),
                              !.llmMessages = Append(@, ToolMsg(outcome, call.id)),
                              !.pending = Tail(@)]
           res == IF outcome = Thrown THEN Caught(run, userContexts)
                  ELSE IF Len(fed.pending) > 0
                       THEN [run |-> [fed EXCEPT !.executed = @ + 1], store |-> userContexts]
                       ELSE LoopHead(fed, userContexts)
       IN /\ runs' = [runs EXCEPT ![r] = res.run]
          /\ userContexts' = res.store
    /\ lastSweep' = {}
    /\ UNCHANGED <<now, rateLimitMap, timerVars, hostVars, accepted, lastCheck>>

\* the handler has sent its replies: the update is done
HandlerEnd(r) ==
    /\ runs[r].pc = "returned"
    /\ runs' = [runs EXCEPT ![r] = Idle]
    /\ lastSweep' = {}
    /\ UNCHANGED <<now, rateLimitMap, userContexts, timerVars, hostVars, accepted, lastCheck>>

\* startContextCleanup setting a timer whether or not one is set
StartContextCleanupUnguarded ==
    /\ cleanupInterval' = TRUE
    /\ timers' = timers + 1
    /\ timerLog' = IF timerLog = "never" THEN "started" ELSE "restarted"
    /\ lastSweep' = {}
    /\ UNCHANGED <<now, rateLimitMap, userContexts, hostVars, runs, accepted, lastCheck>>

\* if (cleanupInterval) return; cleanupInterval = setInterval(...)
StartContextCleanup ==
    /\ IF cleanupInterval
       THEN UNCHANGED timerVars
       ELSE /\ cleanupInterval' = TRUE
            /\ timers' = timers + 1
            /\ timerLog' = IF timerLog = "never" THEN "started" ELSE "restarted"
    /\ lastSweep' = {}
    /\ UNCHANGED <<now, rateLimitMap, userContexts, hostVars, runs, accepted, lastCheck>>

\* if (cleanupInterval) { clearInterval(cleanupInterval); cleanupInterval = null }
StopContextCleanup ==
    /\ IF cleanupInterval
       THEN /\ cleanupInterval' = FALSE
            /\ timers' = timers - 1
            /\ timerLog' = "stopped"
       ELSE UNCHANGED timerVars
    /\ lastSweep' = {}
    /\ UNCHANGED <<now, rateLimitMap, userContexts, hostVars, runs, accepted, lastCheck>>

\* the setInterval callback: it runs as long as a timer is set
CleanupTick ==
    /\ timers > 0
    /\ userContexts' = SweepContexts(userContexts, now)
    /\ rateLimitMap' = SweepRate(rateLimitMap, DOMAIN rateLimitMap, now)
    /\ runs' = Detach(runs, SweptBy(userContexts, now))
    /\ lastSweep' = SweptBy(userContexts, now)
    /\ UNCHANGED <<now, timerVars, hostVars, accepted, lastCheck>>

\* time passes
Tick ==
    /\ now < MaxTime
    /\ now' = now + 1
    /\ lastSweep' = {}
    /\ UNCHANGED <<rateLimitMap, userContexts, timerVars, hostVars, runs, accepted, lastCheck>>

\* executeTool calls sanitizeToolArgs(args): the argument object is read, a new
\* object is returned
SanitizeCall ==
    /\ safeArgs = <<>>
    /\ safeArgs' = <<SanitizeToolArgs(fnArgs)>>
    /\ fnArgs' = fnArgs
    /\ lastSweep' = {}
    /\ UNCHANGED <<now, rateLimitMap, userContexts, timerVars, allowedEnv, chat,
                   split, runs, accepted, lastCheck>>

\* sanitizeToolArgs called on the object it returned
SanitizeAgain ==
    /\ Len(safeArgs) = 1
    /\ safeArgs' = Append(safeArgs, SanitizeToolArgs(safeArgs[1]))
    /\ fnArgs' = fnArgs
    /\ lastSweep' = {}
    /\ UNCHANGED <<now, rateLimitMap, userContexts, timerVars, allowedEnv, chat,
                   split, runs, accepted, lastCheck>>

\* chat.createConversation: no ownership to check, the caller owns the new row
CreateConversation(u) ==
    /\ chat.calls[u].pc # "verified"
    /\ chat.nextId <= MaxConversations
    /\ chat' = [CreateConversationRow(chat, u, DefaultTitle) EXCEPT
                   !.calls[u] = [proc |-> "createConversation", id |-> chat.nextId,
                                 pc |-> "done"]]
    /\ lastSweep' = {}
    /\ UNCHANGED <<now, rateLimitMap, userContexts, timerVars, allowedEnv, fnArgs,
                   safeArgs, split, runs, accepted, lastCheck>>

\* a guarded procedure is called: its first statement awaits
\* verifyConversationOwnership(input.id, ctx.user.id), which returns or throws
ChatCall(u, proc, id) ==
    /\ chat.calls[u].pc # "verified"
    /\ chat' = [chat EXCEPT !.calls[u] =
           [proc |-> proc, id |-> id,
            pc |-> IF VerifyConversationOwnership(chat, id, u)
                   THEN "verified" ELSE "NOT_FOUND"]]
    /\ lastSweep' = {}
    /\ UNCHANGED <<now, rateLimitMap, userContexts, timerVars, allowedEnv, fnArgs,
                   safeArgs, split, runs, accepted, lastCheck>>

\* chat.getConversation after the check: the row and its messages are read
GetConversationProc(u) ==
    /\ chat.calls[u].pc = "verified"
    /\ chat.calls[u].proc = "getConversation"
    /\ chat' = [chat EXCEPT !.calls[u].pc = "done"]
    /\ lastSweep' = {}
    /\ UNCHANGED <<now, rateLimitMap, userContexts, timerVars, allowedEnv, fnArgs,
                   safeArgs, split, runs, accepted, lastCheck>>

\* chat.deleteConversation after the check
DeleteConversationProc(u) ==
    /\ chat.calls[u].pc = "verified"
    /\ chat.calls[u].proc = "deleteConversation"
    /\ chat' = [DeleteConversationRow(chat, chat.calls[u].id) EXCEPT
                   !.calls[u].pc = "done"]
    /\ lastSweep' = {}
    /\ UNCHANGED <<now, rateLimitMap, userContexts, timerVars, allowedEnv, fnArgs,
                   safeArgs, split, runs, accepted, lastCheck>>

\* chat.renameConversation after the check
RenameConversationProc(u) ==
    /\ chat.calls[u].pc = "verified"
    /\ chat.calls[u].proc = "renameConversation"
    /\ chat' = [UpdateConversationTitle(chat, chat.calls[u].id, NewTitle) EXCEPT
                   !.calls[u].pc = "done"]
    /\ lastSweep' = {}
    /\ UNCHANGED <<now, rateLimitMap, userContexts, timerVars, allowedEnv, fnArgs,
                   safeArgs, split, runs, accepted, lastCheck>>

\* chat.sendMessage after the check, the model answering with a text (ok) or
\* failing: the user message is stored, the model is called, the answer or
\* the error text is stored, a first exchange gives the conversation its title
SendMessageProc(u, ok) ==
    /\ chat.calls[u].pc = "verified"
    /\ chat.calls[u].proc = "sendMessage"
    /\ Len(chat.messages) + 2 <= MaxChatMessages
    /\ LET id == chat.calls[u].id
           saved == AddChatMessage(chat, id, "user", UserText)
           history == GetConversationMessages(saved, id)
           called == [saved EXCEPT !.llmCalls = @ + 1]
           answered == AddChatMessage(called, id, "assistant",
                                      IF ok THEN ModelText ELSE ChatErrorText)
           titled == IF ok /\ Len(history) <= 1
                     THEN UpdateConversationTitle(answered, id, UserText)
                     ELSE answered
       IN chat' = [titled EXCEPT !.calls[u].pc = "done"]
    /\ lastSweep' = {}
    /\ UNCHANGED <<now, rateLimitMap, userContexts, timerVars, allowedEnv, fnArgs,
                   safeArgs, split, runs, accepted, lastCheck>>

\* splitMessage(text, maxLen) up to its loop: a text that fits is returned whole
SplitEnter ==
    /\ split.pc = "called"
    /\ split' = IF Len(split.text) <= split.maxLen
                THEN [split EXCEPT !.parts = <<split.text>>, !.pc = "returned"]
                ELSE [split EXCEPT !.remaining = split.text, !.pc = "loop"]
    /\ lastSweep' = {}
    /\ UNCHANGED <<now, rateLimitMap, userContexts, timerVars, allowedEnv, fnArgs,
                   safeArgs, chat, runs, accepted, lastCheck>>

\* one test of while (remaining.length > 0) and, when it holds, one iteration
SplitIterate ==
    /\ split.pc = "loop"
    /\ split' =
           IF Len(split.remaining) = 0
           THEN [split EXCEPT !.pc = "returned"]
           ELSE IF Len(split.remaining) <= split.maxLen
           THEN [split EXCEPT !.parts = Append(@, split.remaining), !.pc = "returned"]
           ELSE LET splitIdx == SplitIndex(split.remaining, split.maxLen)
                IN [split EXCEPT !.parts = Append(@, Slice(split.remaining, splitIdx)),
                                 !.remaining = SliceFrom(@, splitIdx)]
    /\ lastSweep' = {}
    /\ UNCHANGED <<now, rateLimitMap, userContexts, timerVars, allowedEnv, fnArgs,
                   safeArgs, chat, runs, accepted, lastCheck>>

\* the handlers grammY dispatches an update to, for users U in slots S
Handlers(U, S) ==
    \/ \E r \in S, u \in U : Message(r, u, "text")
    \/ \E r \in S, u \in U : Message(r, u, "photo")
    \/ \E r \in S, u \in U, cmd \in {"articles", "settings"} : Command(r, u, cmd)
    \/ \E r \in S, u \in U, data \in {"cmd_stats", "cmd_help"} : Callback(r, u, data)
    \/ \E r \in S, ok \in BOOLEAN : Resume(r, ok)
    \/ \E r \in S, u \in U : ClearCommand(r, u)

\* the continuations of processMessage, the model answering with R
Loop(S, R) ==
    \/ \E r \in S, resp \in R : LLMReturns(r, resp)
    \/ \E r \in S, outcome \in UNION {ToolOutcomes(n) : n \in ToolNames} :
           ToolReturns(r, outcome)
    \/ \E r \in S : HandlerEnd(r)

Cleanup ==
    \/ StartContextCleanup
    \/ StopContextCleanup
    \/ CleanupTick

\* the whole bot at one instant, for three users: every handler, the model
\* answering with a text, the cleanup timer
BotResponses ==
    {resp \in Responses :
        resp.type = "message" /\ resp.content = ModelText /\ resp.tool_calls = <<>>}

Next ==
    \/ Handlers(Users, Slots)
    \/ \E r \in Slots, resp \in BotResponses : LLMReturns(r, resp)
    \/ \E r \in Slots : HandlerEnd(r)
    \/ Cleanup

Spec == Init /\ [][Next]_vars

\* one user's updates handled one after the other, the model answering with
\* every response
NextLoop ==
    \/ \E cmd \in {"articles", "settings"} : Command(1, 1, cmd)
    \/ \E ok \in BOOLEAN : Resume(1, ok)
    \/ ClearCommand(1, 1)
    \/ Loop({1}, Responses)

SpecLoop == Init /\ [][NextLoop]_vars

\* the rate limiter alone, for two users: calls of isRateLimited, cleanup
\* ticks, time
NextRate ==
    \/ \E u \in {1, 2} : MessageDropped(u)
    \/ Cleanup
    \/ Tick

SpecRate == Init /\ [][NextRate]_vars

\* the context store under the handlers that reach it without the rate
\* limiter, the model answering with a text
StoreResponses ==
    {resp \in Responses :
        resp.type = "message" /\ resp.tool_calls = <<>> /\ resp.content = ModelText}

NextStore ==
    \/ \E u \in Users : Command(1, u, "settings")
    \/ \E u \in Users : ClearCommand(1, u)
    \/ \E resp \in StoreResponses : LLMReturns(1, resp)
    \/ HandlerEnd(1)
    \/ Cleanup
    \/ Tick

SpecStore == Init /\ [][NextStore]_vars

\* the message handlers of one user among the command handlers of all, with
\* time and the cleanup timer: user 1 sends texts and photos, every user
\* sends /settings, the model answering with a text
NextGate ==
    \/ \E kind \in {"text", "photo"} : Message(1, 1, kind)
    \/ \E ok \in BOOLEAN : Resume(1, ok)
    \/ \E u \in Users : Command(1, u, "settings")
    \/ \E resp \in BotResponses : LLMReturns(1, resp)
    \/ HandlerEnd(1)
    \/ Cleanup
    \/ Tick

SpecGate == Init /\ [][NextGate]_vars

\* sanitizeToolArgs on every argument object, once and then on its own result
InitSanitize ==
    /\ InitBot
    /\ allowedEnv = EnvUnset
    /\ fnArgs \in ArgObjects
    /\ split = NotSplitting

NextSanitize ==
    \/ SanitizeCall
    \/ SanitizeAgain

SpecSanitize == InitSanitize /\ [][NextSanitize]_vars

\* the handlers behind checkAccess, for every value of TELEGRAM_ALLOWED_USERS
\* and every user, the model answering with a text
InitAccess ==
    /\ InitBot
    /\ allowedEnv \in EnvValues
    /\ fnArgs = <<>>
    /\ split = NotSplitting

NextAccess ==
    \/ \E u \in Users : Message(1, u, "text")
    \/ \E u \in Users : Command(1, u, "settings")
    \/ \E u \in Users : Callback(1, u, "cmd_stats")
    \/ \E u \in Users : ClearCommand(1, u)
    \/ \E u \in Users : Denied(1, u)
    \/ \E ok \in BOOLEAN : Resume(1, ok)
    \/ \E resp \in BotResponses : LLMReturns(1, resp)
    \/ HandlerEnd(1)

SpecAccess == InitAccess /\ [][NextAccess]_vars

\* the web chat router for two users: conversations are created, and every
\* guarded procedure is called on every id, given yet or not, deleted or not
NextChat ==
    \/ \E u \in ChatUsers : CreateConversation(u)
    \/ \E u \in ChatUsers, proc \in GuardedProcedures, id \in 1..MaxConversations :
           ChatCall(u, proc, id)
    \/ \E u \in ChatUsers : GetConversationProc(u)
    \/ \E u \in ChatUsers : DeleteConversationProc(u)
    \/ \E u \in ChatUsers : RenameConversationProc(u)
    \/ \E u \in ChatUsers, ok \in BOOLEAN : SendMessageProc(u, ok)

SpecChat == Init /\ [][NextChat]_vars

\* splitMessage on every text of line breaks and letters up to MaxTextLength,
\* for every maxLen from 1 to MaxPartLength
InitSplit ==
    /\ InitBot
    /\ allowedEnv = EnvUnset
    /\ fnArgs = <<>>
    /\ split \in {SplitCalled(text, maxLen) :
                     text \in TextsUpTo(MaxTextLength), maxLen \in 1..MaxPartLength}

NextSplit ==
    \/ SplitEnter
    \/ SplitIterate

SpecSplit == InitSplit /\ [][NextSplit]_vars

\* the bot with its cleanup scheduler while users 1 and 2 send messages and
\* after they have stopped: they send only as long as a session stamped now
\* can still expire before the clock of the model stops
Sending == now + CONTEXT_TTL_MS < MaxTime

NextIdle ==
    \/ \E u \in {1, 2} : Sending /\ Message(1, u, "text")
    \/ \E ok \in BOOLEAN : (ok => Sending) /\ Resume(1, ok)
    \/ \E resp \in BotResponses : LLMReturns(1, resp)
    \/ HandlerEnd(1)
    \/ StartContextCleanup
    \/ CleanupTick
    \/ Tick

\* time advances; startTelegramBot calls startContextCleanup; a set interval
\* timer keeps firing
SpecIdle ==
    /\ Init
    /\ [][NextIdle]_vars
    /\ WF_vars(Tick)
    /\ WF_vars(StartContextCleanup)
    /\ WF_vars(CleanupTick)

\* the handlers of three users over time, the cleanup timer never set: user 1
\* sends text messages, every user /settings, user 2 /start and /new, the
\* model answering with a text
NextIsolation ==
    \/ Message(1, 1, "text")
    \/ \E u \in Users : Command(1, u, "settings")
    \/ ClearCommand(1, 2)
    \/ \E ok \in BOOLEAN : Resume(1, ok)
    \/ \E resp \in BotResponses : LLMReturns(1, resp)
    \/ HandlerEnd(1)
    \/ Tick

SpecIsolation == Init /\ [][NextIsolation]_vars

\* ------------------------------------------------------------------ claims
Sessions == 1..Len(userContexts)
Running(r) == runs[r].pc \in {"llm", "tool"}
Returned(r) == runs[r].pc = "returned"

C2_StoreBound == Len(userContexts) <= MAX_CACHED_USERS

\* C3: a run calls the model at most MAX_TOOL_ITERATIONS times, and a run that
\* has returned and in which every response contained tool calls has called it
\* exactly MAX_TOOL_ITERATIONS times.
C3_IterationCap ==
    \A r \in Slots :
        /\ runs[r].calls <= MAX_TOOL_ITERATIONS
        /\ Returned(r) /\ runs[r].toolResponses = runs[r].calls =>
               runs[r].calls = MAX_TOOL_ITERATIONS

\* C4: the text processMessage returns is never empty.
C4_NonEmptyOutput == \A r \in Slots : Returned(r) => Truthy(runs[r].ret)

\* a run has returned the fixed no-answer text: no model text, no tool result
C4_Witness ==
    /\ Returned(1)
    /\ runs[1].ret = NoAnswerText
    /\ runs[1].response.type = "message"
    /\ runs[1].toolResults = <<>>

\* the accepted calls of user u with a timestamp in the window that ends at t
AcceptedIn(u, t) ==
    {i \in 1..Len(accepted[u]) :
        accepted[u][i] <= t /\ t - accepted[u][i] < RATE_LIMIT_WINDOW_MS}

\* C5: for every user and every time t, at most RATE_LIMIT_MAX_MESSAGES
\* accepted calls have a timestamp in the trailing window ending at t.
C5_SlidingWindow ==
    \A u \in Users : \A t \in 0..MaxTime :
        Cardinality(AcceptedIn(u, t)) <= RATE_LIMIT_MAX_MESSAGES

\* a user was accepted more often than the limit, so the window has slid, and
\* the window that ends now is full
C5_Witness ==
    /\ Len(accepted[1]) > RATE_LIMIT_MAX_MESSAGES
    /\ Cardinality(AcceptedIn(1, now)) = RATE_LIMIT_MAX_MESSAGES
    /\ lastCheck.limited

\* C6: a call of isRateLimited is accepted iff fewer than
\* RATE_LIMIT_MAX_MESSAGES accepted timestamps of that user are younger than the
\* window; an accepted call records now, a rejected call records nothing.
C6_AcceptRule ==
    [][lastCheck'.flip # lastCheck.flip =>
          LET u == lastCheck'.user
              young == Cardinality(AcceptedIn(u, now))
          IN /\ ~lastCheck'.limited <=> young < RATE_LIMIT_MAX_MESSAGES
             /\ lastCheck'.limited => accepted' = accepted
             /\ ~lastCheck'.limited =>
                    accepted' = [accepted EXCEPT ![u] = Append(@, now)]]_vars

\* a user is accepted again after the window has slid past the first accepted
\* call, the limit having been reached before
C6_Witness ==
    /\ lastCheck.user = 1
    /\ ~lastCheck.limited
    /\ Len(accepted[1]) = RATE_LIMIT_MAX_MESSAGES + 1
    /\ accepted[1][RATE_LIMIT_MAX_MESSAGES] < now

\* the run in slot 1 has returned from: one tool call, then a final text, on a
\* session that was empty when the message arrived
OneToolThenText ==
    /\ Returned(1)
    /\ runs[1].calls = 2
    /\ Len(runs[1].llmMessages) = 4
    /\ runs[1].llmMessages[2] = UserMsg(UserText)
    /\ runs[1].llmMessages[3].role = "assistant"
    /\ Len(runs[1].llmMessages[3].tool_calls) = 1
    /\ runs[1].llmMessages[4].role = "tool"
    /\ runs[1].response.type = "message"
    /\ runs[1].response.tool_calls = <<>>
    /\ runs[1].response.content = ModelText

\* the session of the user of slot 1
Session1 == Entry(userContexts, runs[1].user).messages

C8_RejectedFrame ==
    [][lastCheck'.flip # lastCheck.flip /\ lastCheck'.limited =>
          /\ userContexts' = userContexts
          /\ runs' = runs]_vars

\* a user without a session has been rejected while the store was full: had
\* the handler fetched his context, a session would have been evicted
C8_Witness ==
    /\ lastCheck.limited
    /\ ~Has(userContexts, lastCheck.user)
    /\ Len(userContexts) >= MAX_CACHED_USERS

\* C9: every run of processMessage was let through by isRateLimited.
C9_EveryRunGated == \A r \in Slots : Running(r) \/ Returned(r) => runs[r].gated

\* the step in which the handler in slot 1 enters processMessage
Entered == runs[1].pc \in {"idle", "pre"} /\ runs'[1].pc = "llm"

MinActivity(store) ==
    CHOOSE t \in {store[i].lastActivity : i \in 1..Len(store)} :
        \A i \in 1..Len(store) : t <= store[i].lastActivity

\* C10: getUserContext for a user without a session, the store holding
\* MAX_CACHED_USERS sessions or more, removes exactly one session, one whose
\* lastActivity is minimal, and leaves the user with a new, empty session (which
\* holds the message pushed onto it when processMessage reaches its first
\* await); for a user with a session it removes none.
C10_LruVictim ==
    [][Entered =>
          LET u == runs'[1].user
              gone == Keys(userContexts) \ Keys(userContexts')
          IN /\ Has(userContexts', u)
             /\ ~Has(userContexts, u) =>
                    Entry(GetUserContext(userContexts, u, now), u).messages = <<>>
             /\ Has(userContexts, u) => gone = {}
             /\ ~Has(userContexts, u) =>
                    Entry(userContexts', u).messages = <<UserMsg(UserText)>>
             /\ ~Has(userContexts, u) /\ Len(userContexts) < MAX_CACHED_USERS => gone = {}
             /\ ~Has(userContexts, u) /\ Len(userContexts) >= MAX_CACHED_USERS =>
                    /\ Cardinality(gone) = 1
                    /\ \A k \in gone :
                           Entry(userContexts, k).lastActivity = MinActivity(userContexts)
                    /\ Keys(userContexts') = (Keys(userContexts) \ gone) \cup {u}]_vars

\* a run has evicted a session while another, more recently active one stayed
C10_Witness ==
    /\ runs[1].pc = "llm"
    /\ runs[1].evicted # NoKey
    /\ ~Has(userContexts, runs[1].evicted)
    /\ Len(userContexts) = MAX_CACHED_USERS
    /\ \E i, j \in Sessions : userContexts[i].lastActivity < userContexts[j].lastActivity

\* C11: a cleanup tick at time now removes every session with
\* now - lastActivity > CONTEXT_TTL_MS and keeps every other session as it is;
\* no other step removes a session for its age: time passing removes none, and
\* a handler removes one only in getUserContext for a user without a session
\* while the store holds MAX_CACHED_USERS sessions or more.
C11_TtlSweep ==
    [][/\ CleanupTick =>
              \A i \in Sessions :
                  LET e == userContexts[i]
                  IN IF now - e.lastActivity > CONTEXT_TTL_MS
                     THEN ~Has(userContexts', e.id)
                     ELSE Has(userContexts', e.id) /\ Entry(userContexts', e.id) = e
       /\ ~CleanupTick /\ Keys(userContexts) \ Keys(userContexts') # {} =>
              /\ Entered
              /\ ~Has(userContexts, runs'[1].user)
              /\ Len(userContexts) >= MAX_CACHED_USERS]_vars

\* the tick just taken has swept a session and kept one that had also been
\* idle, for less than the TTL
C11_Witness ==
    /\ lastSweep # {}
    /\ lastSweep \cap Keys(userContexts) = {}
    /\ \E i \in Sessions :
           /\ userContexts[i].lastActivity < now
           /\ now - userContexts[i].lastActivity <= CONTEXT_TTL_MS

\* the first StringLimit characters of text
Prefix(text) ==
    [i \in 1..(IF Len(text) < StringLimit THEN Len(text) ELSE StringLimit) |-> text[i]]

\* C12: in the object sanitizeToolArgs returns, every key of the input with a
\* string value holds the first StringLimit characters of it, every key with a
\* number v holds min(max(v, 0), NumberLimit), every key with a boolean holds
\* it, a key with a value of another type is absent, and there is no key that
\* the input lacks.
C12_SanitizerMapping ==
    safeArgs # <<>> =>
        LET out == safeArgs[1]
        IN /\ DOMAIN out \subseteq DOMAIN fnArgs
           /\ \A k \in DOMAIN fnArgs :
                  LET v == fnArgs[k]
                  IN CASE v.type = "string" ->
                              k \in DOMAIN out /\ out[k] = StringValue(Prefix(v.str))
                       [] v.type = "number" ->
                              /\ k \in DOMAIN out
                              /\ out[k].type = "number"
                              /\ v.num < 0 => out[k].num = 0
                              /\ v.num > NumberLimit => out[k].num = NumberLimit
                              /\ v.num \in 0..NumberLimit => out[k].num = v.num
                       [] v.type = "boolean" -> k \in DOMAIN out /\ out[k] = v
                       [] OTHER -> k \notin DOMAIN out

\* C13: sanitizeToolArgs applied to its own result returns that result, and a
\* call leaves its argument as it was, so that the result is the one a new call
\* on the argument returns.
C13_SanitizerIdempotent ==
    /\ Len(safeArgs) >= 1 => safeArgs[1] = SanitizeToolArgs(fnArgs)
    /\ Len(safeArgs) = 2 => safeArgs[2] = safeArgs[1]

\* sanitizeToolArgs was applied twice to an object with a string over the
\* limit, a number over the limit and a value that is dropped
C13_Witness ==
    /\ Len(safeArgs) = 2
    /\ \E k \in DOMAIN fnArgs :
           fnArgs[k].type = "string" /\ Len(fnArgs[k].str) > StringLimit + 1
    /\ \E k \in DOMAIN fnArgs :
           fnArgs[k].type = "number" /\ fnArgs[k].num > NumberLimit
    /\ DOMAIN safeArgs[1] # DOMAIN fnArgs

\* the tool call that executeTool is working on in slot 1
Call1 == Head(runs[1].pending)

C15_ToolFailureFedBack ==
    [][runs[1].pc = "tool" =>
          /\ runs'[1].ret # ErrorText
          /\ Len(runs'[1].llmMessages) = Len(runs[1].llmMessages) + 1
          /\ LET last == runs'[1].llmMessages[Len(runs'[1].llmMessages)]
             IN last.role = "tool" /\ last.tool_call_id = Call1.id
          /\ runs'[1].pc \in {"tool", "llm"} \/ runs[1].iterations = MAX_TOOL_ITERATIONS]_vars

\* callLLM rejects
ThrowResponse == [type |-> "throw", content |-> EmptyText, tool_calls |-> <<>>]

C17_TimerLifecycle ==
    [][/\ timers' <= 1
       /\ cleanupInterval' <=> timers' = 1
       /\ StartContextCleanup => timers' = 1 /\ (timers = 1 => UNCHANGED timerVars)
       /\ StopContextCleanup => timers' = 0 /\ (timers = 0 => UNCHANGED timerVars)]_vars

\* a timer is set again after a start, a stop and a second start
C17_Witness ==
    /\ timerLog = "restarted"
    /\ cleanupInterval
    /\ timers = 1

\* C18: clearUserContext(u) leaves u with a session of no messages, does not
\* change the number of sessions, whether u had a session or not, and leaves
\* the session of every other user as it was.
C18_ResetFrame ==
    [][\A u \in Users :
          ClearCommand(1, u) =>
              /\ Has(userContexts', u)
              /\ Entry(userContexts', u).messages = <<>>
              /\ Len(userContexts') = Len(userContexts)
              /\ \A k \in Keys(userContexts) \ {u} :
                     Has(userContexts', k) /\ Entry(userContexts', k) = Entry(userContexts, k)]_vars

\* the tool messages that answer the tool calls of the assistant message at
\* place k of a working list follow it, in the order of the calls
GroupAt(list, k) ==
    \A j \in 1..Len(list[k].tool_calls) :
        k + j <= Len(list) =>
            /\ list[k + j].role = "tool"
            /\ list[k + j].tool_call_id = list[k].tool_calls[j].id

AllowedSet == {GetAllowedUserIds(allowedEnv)[i] : i \in DOMAIN GetAllowedUserIds(allowedEnv)}

\* C20: when TELEGRAM_ALLOWED_USERS lists a valid id, only listed users have a
\* session, an entry of the rate limiter, an accepted message or a run of
\* processMessage (with its callLLM and executeTool calls); when the variable
\* is unset or empty every user is allowed.
C20_WhitelistGate ==
    /\ AllowedSet # {} =>
           /\ Keys(userContexts) \subseteq AllowedSet
           /\ DOMAIN rateLimitMap \subseteq AllowedSet
           /\ \A u \in Users \ AllowedSet : accepted[u] = <<>>
           /\ \A r \in Slots : Running(r) \/ Returned(r) => runs[r].user \in AllowedSet
    /\ ~allowedEnv.set \/ allowedEnv.value = <<>> =>
           \A u \in Users : IsUserAllowed(allowedEnv, u)

\* with " 1 ,2" as the list, users 1 and 2 have sessions and rate-limiter
\* entries, and an update of user 3 has just been turned away
C20_Witness ==
    /\ allowedEnv = EnvText(<<" ", "1", " ", ",", "2">>)
    /\ Keys(userContexts) = {1, 2}
    /\ DOMAIN rateLimitMap = {1, 2}
    /\ runs[1].kind = "denied"
    /\ runs[1].user = 3

\* C21: getConversation, deleteConversation, renameConversation and sendMessage
\* called on a conversation that does not exist or belongs to another user
\* fail with NOT_FOUND and leave the tables and the model alone; called by the
\* owner they pass the check and then take effect; and no row, message or
\* model call changes except through a call of the conversation's owner
Owns(u, id) == \E i \in DOMAIN chat.conversations :
    chat.conversations[i].id = id /\ chat.conversations[i].userId = u
ChatTables(db) == <<db.conversations, db.messages, db.llmCalls>>
C21_OwnershipGate ==
    [][\A u \in ChatUsers :
          LET before == chat.calls[u]
              after == chat'.calls[u]
          IN /\ (after # before /\ before.pc # "verified"
                    /\ after.proc \in GuardedProcedures) =>
                   /\ ChatTables(chat') = ChatTables(chat)
                   /\ after.pc = IF Owns(u, after.id) THEN "verified" ELSE "NOT_FOUND"
             /\ (after # before /\ before.pc = "verified") =>
                   /\ Owns(u, before.id)
                   /\ after = [before EXCEPT !.pc = "done"]
                   /\ before.proc = "deleteConversation" =>
                          GetConversation(chat', before.id) = NoConversation
                   /\ before.proc = "renameConversation" =>
                          GetConversation(chat', before.id).title = NewTitle
                   /\ before.proc = "sendMessage" =>
                          /\ chat'.llmCalls = chat.llmCalls + 1
                          /\ Len(GetConversationMessages(chat', before.id)) =
                                 Len(GetConversationMessages(chat, before.id)) + 2
                   /\ before.proc = "getConversation" =>
                          ChatTables(chat') = ChatTables(chat)
             /\ \A id \in 1..MaxConversations :
                    (/\ Owns(u, id)
                     /\ \/ GetConversation(chat', id) # GetConversation(chat, id)
                        \/ GetConversationMessages(chat', id) #
                               GetConversationMessages(chat, id)) =>
                        /\ before.pc = "verified"
                        /\ before.id = id
                        /\ after.pc = "done"]_vars

\* the owner has written to and renamed a conversation; the other user's
\* sendMessage on it was refused
C21_Witness ==
    \E i \in DOMAIN chat.conversations :
        LET conv == chat.conversations[i]
        IN /\ conv.userId = 1
           /\ conv.title = NewTitle
           /\ Len(GetConversationMessages(chat, conv.id)) = 2
           /\ chat.calls[2] = [proc |-> "sendMessage", id |-> conv.id, pc |-> "NOT_FOUND"]
           /\ chat.calls[1].pc = "done"

\* C22: when processMessage returns for a user, the session the store holds
\* for that user ends with the returned text as an assistant message, also
\* when the session was evicted, swept or replaced while the loop was
\* suspended
C22_AnswerStored ==
    [][\A r \in Slots :
          (~Returned(r) /\ Returned(r)') =>
              /\ Has(userContexts', runs'[r].user)
              /\ LET messages == Entry(userContexts', runs'[r].user).messages
                 IN /\ messages # <<>>
                    /\ messages[Len(messages)] = AssistantMsg(runs'[r].ret)]_vars

\* C23: when the loop ends without a non-empty final text (the iterations are
\* used up, the final text is empty, or the response has no choice), the
\* returned content is the text of the last model response if that is not
\* empty, else the tool result texts joined in the order of execution if a
\* tool ran, else the fixed no-answer text.
C23_FallbackPriority ==
    \A r \in Slots :
        LET run == runs[r]
            last == run.response
            lastText == IF last.type = "message" THEN last.content ELSE EmptyText
            finalText == last.type = "message" /\ last.tool_calls = <<>>
                             /\ lastText # EmptyText
        IN (Returned(r) /\ run.ret # ErrorText /\ ~finalText) =>
               run.ret = IF lastText # EmptyText THEN lastText
                         ELSE IF run.toolResults # <<>> THEN Join(run.toolResults)
                         ELSE NoAnswerText

\* every iteration asked for tools and the last response carries a text: the
\* text is returned although tool results are at hand
C23_Witness ==
    /\ Returned(1)
    /\ runs[1].iterations = MAX_TOOL_ITERATIONS
    /\ runs[1].response.tool_calls # <<>>
    /\ Len(runs[1].toolResults) >= MAX_TOOL_ITERATIONS
    /\ runs[1].ret = ModelText

\* C24 as claimed: when callLLM throws in an iteration that follows iterations
\* which produced tool results, the run ends with the fallback content (the
\* text of the last model response if there is one, else the joined tool
\* results) as the returned text and as the final assistant message.
FallbackOf(run) ==
    IF run.response.type = "message" /\ run.response.content # EmptyText
    THEN run.response.content
    ELSE Join(run.toolResults)
C24_FallbackOnFailure ==
    [][(LLMReturns(1, ThrowResponse) /\ runs[1].toolResults # <<>>) =>
           /\ runs'[1].pc = "returned"
           /\ runs'[1].ret = FallbackOf(runs[1])
           /\ LET messages == Entry(userContexts', runs[1].user).messages
              IN messages[Len(messages)] = AssistantMsg(FallbackOf(runs[1]))]_vars

\* C24 amended: when callLLM throws in an iteration that follows iterations
\* which produced tool results, the run ends with the sanitized error text,
\* not the fallback content, as the returned text and as the final assistant
\* message of the session; the tool results are in neither.
C24_ErrorOnFailure ==
    [][(LLMReturns(1, ThrowResponse) /\ runs[1].toolResults # <<>>) =>
           /\ runs'[1].pc = "returned"
           /\ runs'[1].ret = ErrorText
           /\ runs'[1].ret # FallbackOf(runs[1])
           /\ LET messages == Entry(userContexts', runs[1].user).messages
              IN /\ messages[Len(messages)] = AssistantMsg(ErrorText)
                 /\ \A i \in DOMAIN messages : messages[i].role # "tool"]_vars

\* two tools ran for a response that carried a text, then callLLM threw: the
\* error text was returned
C24_Witness ==
    /\ Returned(1)
    /\ Len(runs[1].toolResults) = 2
    /\ runs[1].response.content = ModelText
    /\ runs[1].calls = runs[1].toolResponses + 1
    /\ runs[1].ret = ErrorText
    /\ runs[1].pending = <<>>

\* C25: the trim that follows the append of the user message removes messages
\* from the front only and stops at 2 * MAX_CONTEXT_MESSAGES: the session after
\* it is the last 2 * MAX_CONTEXT_MESSAGES messages of the session with the
\* user message appended, in the same order, and a session that is not over
\* the bound is that session unchanged.
C25_FifoTrim ==
    [][Entered =>
          LET u == runs'[1].user
              before == IF Has(userContexts, u)
                        THEN Entry(userContexts, u).messages ELSE <<>>
              appended == Append(before, UserMsg(UserText))
              n == Len(appended)
              after == Entry(userContexts', u).messages
          IN /\ n <= MAX_CONTEXT_MESSAGES * 2 => after = appended
             /\ n > MAX_CONTEXT_MESSAGES * 2 =>
                    after = SubSeq(appended, n - MAX_CONTEXT_MESSAGES * 2 + 1, n)]_vars

\* a run is at its first callLLM with a full session whose oldest message is
\* an answer: the question before it was trimmed away
C25_Witness ==
    /\ runs[1].pc = "llm"
    /\ runs[1].calls = 1
    /\ Len(Session1) = MAX_CONTEXT_MESSAGES * 2
    /\ Session1[1].role = "assistant"
    /\ Session1[Len(Session1)] = UserMsg(UserText)

\* C26: with the cleanup scheduler started and time advancing, users who send
\* nothing more eventually have neither a session nor an entry in
\* rateLimitMap; and a sweep removes a user's rate window exactly when it holds
\* no timestamp younger than RATE_LIMIT_WINDOW_MS, and otherwise keeps exactly
\* the younger timestamps.
C26_IdleReclaimed ==
    /\ <>[](userContexts = <<>> /\ rateLimitMap = <<>>)
    /\ [][CleanupTick =>
             \A u \in DOMAIN rateLimitMap :
                 LET Young(t) == now - t < RATE_LIMIT_WINDOW_MS
                     young == SelectSeq(rateLimitMap[u], Young)
                 IN IF young = <<>>
                    THEN u \notin DOMAIN rateLimitMap'
                    ELSE u \in DOMAIN rateLimitMap' /\ rateLimitMap'[u] = young]_vars

\* users 1 and 2 were let through the limiter, user 1 got a session, and the
\* sweep just made has left neither a session nor a rate window
C26_Witness ==
    /\ accepted[1] # <<>>
    /\ accepted[2] # <<>>
    /\ lastSweep = {1}
    /\ userContexts = <<>>
    /\ rateLimitMap = <<>>

\* C27: for every text and every maxLen of at least 1 splitMessage terminates
\* (every iteration of its loop takes at least one character off what remains),
\* every part it returns is at most maxLen long, the parts concatenated in
\* order are the text, and a text not longer than maxLen, the empty one
\* included, is returned as a single part.
RECURSIVE Flatten(_)
Flatten(parts) == IF parts = <<>> THEN <<>> ELSE Head(parts) \o Flatten(Tail(parts))
C27_SplitMessage ==
    /\ split.pc = "loop" =>
           /\ Flatten(split.parts) \o split.remaining = split.text
           /\ \A i \in DOMAIN split.parts : Len(split.parts[i]) \in 1..split.maxLen
    /\ split.pc = "returned" =>
           /\ Flatten(split.parts) = split.text
           /\ \A i \in DOMAIN split.parts : Len(split.parts[i]) <= split.maxLen
           /\ Len(split.text) > split.maxLen =>
                  \A i \in DOMAIN split.parts : Len(split.parts[i]) >= 1
           /\ Len(split.text) <= split.maxLen => split.parts = <<split.text>>

\* a text was split in three parts or more, once at a line break short of
\* maxLen, the break opening the next part
C27_Witness ==
    /\ split.pc = "returned"
    /\ Len(split.parts) >= 3
    /\ \E i \in 1..(Len(split.parts) - 1) :
           /\ Len(split.parts[i]) < split.maxLen
           /\ split.parts[i + 1][1] = NewLine

\* C28: the handling of a request never looks at the age of a session: a
\* message that arrives for a session older than CONTEXT_TTL_MS which no sweep
\* has removed yet is appended to the old history, lastActivity becomes the
\* time of the message, and a sweep that follows within CONTEXT_TTL_MS keeps
\* the session.
C28_ExpiredRevived ==
    [][\A u \in Users :
          (/\ Entered
           /\ runs'[1].user = u
           /\ Has(userContexts, u)
           /\ now - Entry(userContexts, u).lastActivity > CONTEXT_TTL_MS) =>
              LET old == Entry(userContexts, u).messages
                  after == Entry(userContexts', u).messages
              IN /\ Has(userContexts', u)
                 /\ old # <<>> =>
                        /\ Len(after) = MAX_CONTEXT_MESSAGES * 2
                        /\ after[Len(after) - 1] = old[Len(old)]
                 /\ after[Len(after)] = UserMsg(UserText)
                 /\ Entry(userContexts', u).lastActivity = now
                 /\ \A t \in now..(now + CONTEXT_TTL_MS) :
                        Has(SweepContexts(userContexts', t), u)]_vars

\* the cleanup timer is set but has not fired on an expired session; a run
\* entered processMessage on it: the session holds its old answer, stamped now
C28_Witness ==
    /\ runs[1].revived
    /\ runs[1].attached
    /\ timers > 0
    /\ Has(userContexts, runs[1].user)
    /\ Entry(userContexts, runs[1].user).lastActivity = now
    /\ Entry(userContexts, runs[1].user).messages[1].role = "assistant"

\* C29: the handling of a message, a command, a reset or a rate-limit check
\* for a user A never changes the message list or the lastActivity of the
\* session of another user B, nor B's rate window; the only effect on B is
\* the removal of B's whole session by the eviction that makes room for A.
RateWindow(map, u) == IF u \in DOMAIN map THEN <<map[u]>> ELSE <<>>
Contains(text, part) ==
    \E i \in 1..(Len(text) - Len(part) + 1) : SubSeq(text, i, i + Len(part) - 1) = part
LastCallsMsg(messages) ==
    CHOOSE i \in DOMAIN messages :
        /\ messages[i].tool_calls # <<>>
        /\ \A j \in DOMAIN messages : messages[j].tool_calls # <<>> => j <= i
Unsent(run) ==
    {i \in DOMAIN run.llmMessages :
        /\ run.toolResponses > 0
        /\ run.calls = run.toolResponses
        /\ i > LastCallsMsg(run.llmMessages)
        /\ run.llmMessages[i].role = "tool"}
====
